---------------------------- MODULE Spec2Model ----------------------------
(***************************************************************************)
(* State machine of the ChatUI component (src/src/components/ChatUI.tsx).  *)
(* The React state cells are the variables; every event handler and every  *)
(* resumption of an async handler after an await is one action.  A handler *)
(* invocation that is suspended at an await is a record that carries the   *)
(* values its closure captured when it was invoked.                        *)
(***************************************************************************)
EXTENDS Integers, Sequences, FiniteSets, TLC

VARIABLES
    now,                  \* reading of Date.now()
    messages,             \* useState<Message[]>            (Conversation Log)
    conversationHistory,  \* useState<GeminiContent[]>      (Model Session)
    input,                \* useState('')                   (composition box)
    isTyping,             \* useState(false)                (in-flight flag)
    uploadedFiles,        \* useState<UploadedFile[]>       (Attachment Store)
    isProcessingFile,     \* useState(false)                (processing flag)
    pdfJsLoaded,          \* useState(false)                (library readiness)
    pdfScript,            \* the <script> element that loads PDF.js
    sends,                \* handleSend invocations suspended at an await
    extractions,          \* handleFileUpload invocations suspended at an await
    nAccepted,            \* number of accepted sends and uploads so far
    lastOp                \* the handler step that produced the current state

vars == <<now, messages, conversationHistory, input, isTyping, uploadedFiles,
          isProcessingFile, pdfJsLoaded, pdfScript, sends, extractions,
          nAccepted, lastOp>>

-----------------------------------------------------------------------------
(* Bounds of the model *)

MaxClock == 1
MaxAccepted == 2

-----------------------------------------------------------------------------
(* Strings *)

IsSpace(c) == c \in {" ", "\n", "\t"}

RECURSIVE TrimStart(_)
TrimStart(s) ==
    IF s = "" THEN ""
    ELSE IF IsSpace(Head(s)) THEN TrimStart(Tail(s)) ELSE s

RECURSIVE TrimEnd(_)
TrimEnd(s) ==
    IF s = "" THEN ""
    ELSE IF IsSpace(SubSeq(s, Len(s), Len(s)))
         THEN TrimEnd(SubSeq(s, 1, Len(s) - 1))
         ELSE s

\* String.prototype.trim
TrimNone(s) == s
Trim(s) == TrimEnd(TrimStart(s))

Digit(d) == SubSeq("0123456789", d + 1, d + 1)

\* template-literal conversion of a non-negative integer
RECURSIVE NumberToString(_)
NumberToString(n) ==
    IF n < 10 THEN Digit(n)
    ELSE NumberToString(n \div 10) \o Digit(n % 10)

\* Array.prototype.join
RECURSIVE Join(_, _)
Join(items, sep) ==
    IF Len(items) = 0 THEN ""
    ELSE IF Len(items) = 1 THEN items[1]
    ELSE items[1] \o sep \o Join(Tail(items), sep)

\* the functional updater prev => [...prev, item]
AppendItemReplacing(prev, item) == <<item>>
AppendItem(prev, item) == Append(prev, item)

IsPrefix(s, t) == Len(s) <= Len(t) /\ SubSeq(t, 1, Len(s)) = s

RemoveAt(s, k) == SubSeq(s, 1, k - 1) \o SubSeq(s, k + 1, Len(s))

-----------------------------------------------------------------------------
(* Fixed texts *)

WelcomeText == "Hi, how can I help you today? You can also upload PDF files for me to analyze!"
PlaceholderText == "Sorry, I could not generate a response."
ApiErrorText == "Sorry, I encountered an error while processing your request. Please try again."
PdfType == "application/pdf"

-----------------------------------------------------------------------------
(* Inputs *)

\* values typed into the composition box
Inputs == {" Summarize\n", " \t"}

\* a document is its pages, a page is its text fragments
DocX == << <<"X">> >>
DocAB == << <<"a", "b">>, <<>> >>

Files == { [name |-> "doc.pdf", type |-> PdfType, doc |-> DocX],
           [name |-> "b.pdf", type |-> PdfType, doc |-> DocAB],
           [name |-> "notes.txt", type |-> "text/plain", doc |-> <<>>] }

\* parsed bodies of a success-status answer of the completion service
Reply(text) == [candidates |-> << [content |-> [parts |-> << [text |-> text] >>]] >>]
Bodies == { Reply("Hi!"), Reply(""), [candidates |-> <<>>], [error |-> "blocked"] }

-----------------------------------------------------------------------------
(* Messages *)

Message(id, sender, text, timestamp) ==
    [id |-> id, sender |-> sender, text |-> text, timestamp |-> timestamp]

HasAttachment(m) == "hasAttachment" \in DOMAIN m /\ m.hasAttachment

GeminiContent(role, text) == [role |-> role, parts |-> << [text |-> text] >>]

-----------------------------------------------------------------------------
(* Initial state: the component after its mount effects *)

Init ==
    /\ now = 0
    /\ messages = << Message("welcome", "assistant", WelcomeText, 0) >>
    /\ conversationHistory = <<>>
    /\ input = ""
    /\ isTyping = FALSE
    /\ uploadedFiles = <<>>
    /\ isProcessingFile = FALSE
    /\ \/ pdfJsLoaded = TRUE /\ pdfScript = "none"
       \/ pdfJsLoaded = FALSE /\ pdfScript = "loading"
    /\ sends = <<>>
    /\ extractions = <<>>
    /\ nAccepted = 0
    /\ lastOp = [op |-> "mount"]

-----------------------------------------------------------------------------
(* Environment *)

\* lastOp after a step that no property singles out
Other == [op |-> "other"]

Tick ==
    /\ now < MaxClock
    /\ now' = now + 1
    /\ lastOp' = Other
    /\ UNCHANGED <<messages, conversationHistory, input, isTyping,
                   uploadedFiles, isProcessingFile, pdfJsLoaded, pdfScript,
                   sends, extractions, nAccepted>>

ScriptOnload ==
    /\ pdfScript = "loading"
    /\ pdfScript' = "loaded"
    /\ pdfJsLoaded' = TRUE
    /\ lastOp' = Other
    /\ UNCHANGED <<now, messages, conversationHistory, input, isTyping,
                   uploadedFiles, isProcessingFile, sends, extractions, nAccepted>>

ScriptOnerror ==
    /\ pdfScript = "loading"
    /\ pdfScript' = "failed"
    /\ lastOp' = Other
    /\ UNCHANGED <<now, messages, conversationHistory, input, isTyping,
                   uploadedFiles, isProcessingFile, pdfJsLoaded, sends,
                   extractions, nAccepted>>

SetInput(value) ==
    /\ input' = value
    /\ lastOp' = Other
    /\ UNCHANGED <<now, messages, conversationHistory, isTyping,
                   uploadedFiles, isProcessingFile, pdfJsLoaded, pdfScript,
                   sends, extractions, nAccepted>>

-----------------------------------------------------------------------------
(* callGeminiAPI *)

\* lines 193-199: the text sent to the model for userMessage
FileEntry(file) == "Content from " \o file.name \o ":\n" \o file.content
FileEntries(files) == [i \in 1..Len(files) |-> FileEntry(files[i])]

ComposeMessageSingleNewline(userMessage, includeFileContent, files) ==
    IF includeFileContent /\ Len(files) > 0
    THEN "Context from uploaded files:\n" \o Join(FileEntries(files), "\n")
         \o "\n\nUser question: " \o userMessage
    ELSE userMessage

ComposeMessage(userMessage, includeFileContent, files) ==
    IF includeFileContent /\ Len(files) > 0
    THEN "Context from uploaded files:\n" \o Join(FileEntries(files), "\n\n")
         \o "\n\nUser question: " \o userMessage
    ELSE userMessage

\* lines 202-207: [...conversationHistory, newUserContent]
UpdatedHistoryNewTurnOnly(history, messageForAPI) ==
    << GeminiContent("user", messageForAPI) >>
UpdatedHistory(history, messageForAPI) ==
    Append(history, GeminiContent("user", messageForAPI))

\* the value of an optional-chaining step: None is undefined
None == <<>>
Some(v) == <<v>>
Field(obj, name) ==
    IF obj # None /\ name \in DOMAIN obj[1] THEN Some(obj[1][name]) ELSE None
First(arr) ==
    IF arr # None /\ Len(arr[1]) > 0 THEN Some(arr[1][1]) ELSE None

\* data.candidates?.[0]?.content?.parts?.[0]?.text
CandidateText(data) ==
    Field(First(Field(Field(First(Field(Some(data), "candidates")), "content"), "parts")), "text")

\* line 226: undefined and '' are falsy for ||
AiResponseTextNoFallback(data) ==
    LET text == CandidateText(data)
    IN IF text = None THEN "undefined" ELSE text[1]

AiResponseText(data) ==
    LET text == CandidateText(data)
    IN IF text = None \/ text[1] = "" THEN PlaceholderText ELSE text[1]

\* The outcome of the service call of invocation s: what callGeminiAPI
\* returns and the value it leaves in conversationHistory.
\* response.kind is "networkError" (fetch rejects), "notOk" (!response.ok),
\* "parseError" (response.json() rejects) or "data" (a parsed body).
Failed(response) == response.kind \in {"networkError", "notOk", "parseError"}

GeminiResultDroppingUserTurn(s, response) ==
    IF Failed(response)
    THEN [text |-> ApiErrorText, history |-> conversationHistory]
    ELSE [text |-> AiResponseText(response.data),
          history |-> Append(conversationHistory,
                             GeminiContent("model", AiResponseText(response.data)))]

GeminiResultRecordingFailedTurn(s, response) ==
    IF Failed(response)
    THEN [text |-> ApiErrorText, history |-> s.updatedHistory]
    ELSE [text |-> AiResponseText(response.data),
          history |-> Append(s.updatedHistory,
                             GeminiContent("model", AiResponseText(response.data)))]

GeminiResult(s, response) ==
    IF Failed(response)
    THEN [text |-> ApiErrorText, history |-> conversationHistory]
    ELSE [text |-> AiResponseText(response.data),
          history |-> Append(s.updatedHistory,
                             GeminiContent("model", AiResponseText(response.data)))]

-----------------------------------------------------------------------------
(* handleSend *)

\* line 245
ShouldDropUnguarded(text, typing) == text = ""
ShouldDrop(text, typing) == text = "" \/ typing

\* line 273: setUploadedFiles([])
FilesAfterSendKept == uploadedFiles
FilesAfterSend == <<>>

\* line 285: the finally block
TypingAfterSendKept == isTyping
TypingAfterSend == FALSE

\* lines 263-268: the reply shown for a settled send
AssistantMessageAsUser(text, timestamp) ==
    Message("assistant-" \o NumberToString(timestamp), "user", text, timestamp)
AssistantMessage(text, timestamp) ==
    Message("assistant-" \o NumberToString(timestamp), "assistant", text, timestamp)

\* lines 243-261 and 190-217: the handler up to the await of fetch
HandleSend ==
    LET text == Trim(input) IN
    IF ShouldDrop(text, isTyping)
    THEN /\ lastOp' = [op |-> "handleSend", accepted |-> FALSE]
         /\ UNCHANGED <<now, messages, conversationHistory, input, isTyping,
                        uploadedFiles, isProcessingFile, pdfJsLoaded,
                        pdfScript, sends, extractions, nAccepted>>
    ELSE LET userMessage == Message("user-" \o NumberToString(now), "user", text, now)
             messageForAPI == ComposeMessage(text, Len(uploadedFiles) > 0, uploadedFiles)
             updatedHistory == UpdatedHistory(conversationHistory, messageForAPI)
             s == [text |-> text,
                   uploadedFiles |-> uploadedFiles,
                   conversationHistory |-> conversationHistory,
                   updatedHistory |-> updatedHistory,
                   body |-> [contents |-> updatedHistory],
                   pc |-> "fetch"]
         IN /\ nAccepted < MaxAccepted
            /\ nAccepted' = nAccepted + 1
            /\ messages' = AppendItem(messages, userMessage)
            /\ input' = ""
            /\ isTyping' = TRUE
            /\ sends' = Append(sends, s)
            /\ lastOp' = [op |-> "handleSend", accepted |-> TRUE]
            /\ UNCHANGED <<now, conversationHistory, uploadedFiles,
                           isProcessingFile, pdfJsLoaded, pdfScript,
                           extractions>>

\* lines 219-240 and 263-286: invocation k resumes with the outcome of the
\* service call and runs to its end
FinishSend(k, response) ==
    LET s == sends[k]
        result == GeminiResult(s, response)
        assistantMessage == AssistantMessage(result.text, now)
    IN /\ conversationHistory' = result.history
       /\ messages' = AppendItem(messages, assistantMessage)
       /\ uploadedFiles' = FilesAfterSend
       /\ isTyping' = TypingAfterSend
       /\ sends' = RemoveAt(sends, k)
       /\ lastOp' = [op |-> "sendResolved", outcome |-> response.kind, send |-> s,
                    response |-> response]
       /\ UNCHANGED <<now, input, isProcessingFile, pdfJsLoaded, pdfScript,
                      extractions, nAccepted>>

\* line 209: fetch settles
FetchResolve(k, outcome) ==
    /\ k \in 1..Len(sends)
    /\ sends[k].pc = "fetch"
    /\ IF outcome = "ok"
       THEN /\ sends' = [sends EXCEPT ![k].pc = "json"]
            /\ lastOp' = Other
            /\ UNCHANGED <<now, messages, conversationHistory, input,
                           isTyping, uploadedFiles, isProcessingFile,
                           pdfJsLoaded, pdfScript, extractions, nAccepted>>
       ELSE FinishSend(k, [kind |-> outcome])

\* line 223: response.json() settles with a parsed body
JsonResolve(k, data) ==
    /\ k \in 1..Len(sends)
    /\ sends[k].pc = "json"
    /\ FinishSend(k, [kind |-> "data", data |-> data])

\* line 223: response.json() rejects
JsonReject(k) ==
    /\ k \in 1..Len(sends)
    /\ sends[k].pc = "json"
    /\ FinishSend(k, [kind |-> "parseError"])

-----------------------------------------------------------------------------
(* extractTextFromPDF *)

\* lines 114-118: what page i, with text items `items`, adds to fullText
PageChunkUnspaced(i, items) ==
    "Page " \o NumberToString(i) \o ":\n" \o Join(items, "") \o "\n\n"
PageChunk(i, items) ==
    "Page " \o NumberToString(i) \o ":\n" \o Join(items, " ") \o "\n\n"

\* lines 107-123: the loop over the pages of doc, from page i on
RECURSIVE ExtractFrom(_, _, _)
ExtractFrom(doc, i, fullText) ==
    IF i <= Len(doc)
    THEN ExtractFrom(doc, i + 1, fullText \o PageChunk(i, doc[i]))
    ELSE fullText

ExtractText(doc) == ExtractFrom(doc, 1, "")

-----------------------------------------------------------------------------
(* handleFileUpload *)

\* lines 138-146: the two rejections
UploadRejectedLoadedOnly(file) == ~pdfJsLoaded
UploadRejected(file) == file.type # PdfType \/ ~pdfJsLoaded

\* line 182: the finally block
ProcessingAfterUploadKept == isProcessingFile
ProcessingAfterUpload == FALSE

\* lines 134-151 and 96-102, 130: the handler up to the read of the file;
\* files is event.target.files
HandleFileUpload(files) ==
    IF Len(files) = 0
    THEN /\ lastOp' = [op |-> "handleFileUpload", accepted |-> FALSE, files |-> files]
         /\ UNCHANGED <<now, messages, conversationHistory, input, isTyping,
                        uploadedFiles, isProcessingFile, pdfJsLoaded,
                        pdfScript, sends, extractions, nAccepted>>
    ELSE LET file == files[1] IN
         IF UploadRejected(file)
         THEN /\ lastOp' = [op |-> "handleFileUpload", accepted |-> FALSE, files |-> files]
              /\ UNCHANGED <<now, messages, conversationHistory, input,
                             isTyping, uploadedFiles, isProcessingFile,
                             pdfJsLoaded, pdfScript, sends, extractions, nAccepted>>
         ELSE /\ nAccepted < MaxAccepted
              /\ nAccepted' = nAccepted + 1
              /\ isProcessingFile' = TRUE
              /\ extractions' = Append(extractions,
                     [file |-> file, pc |-> "read", i |-> 1, fullText |-> "",
                      started |-> nAccepted])
              /\ lastOp' = [op |-> "handleFileUpload", accepted |-> TRUE, files |-> files]
              /\ UNCHANGED <<now, messages, conversationHistory, input,
                             isTyping, uploadedFiles, pdfJsLoaded, pdfScript,
                             sends>>

\* line 159: setUploadedFiles(prev => [...prev, newFile])
AddFilePrepending(prev, newFile) == <<newFile>> \o prev
AddFileOverwriting(prev, newFile) == <<newFile>>
AddFile(prev, newFile) == Append(prev, newFile)

\* lines 153-157
NewFile(file, extractedText) ==
    [name |-> file.name, content |-> extractedText, type |-> "pdf"]

\* lines 162-169
FileMessage(file, timestamp) ==
    [id |-> "file-" \o NumberToString(timestamp),
     sender |-> "user",
     text |-> "Uploaded: " \o file.name,
     timestamp |-> timestamp,
     hasAttachment |-> TRUE,
     attachmentName |-> file.name]

\* lines 123, 153-176, 182: extraction k resolves with extractedText
CompleteUpload(k, extractedText) ==
    LET file == extractions[k].file
    IN /\ uploadedFiles' = AddFile(uploadedFiles, NewFile(file, extractedText))
       /\ messages' = AppendItem(messages, FileMessage(file, now))
       /\ isProcessingFile' = ProcessingAfterUpload
       /\ extractions' = RemoveAt(extractions, k)
       /\ lastOp' = [op |-> "uploadDone", file |-> file, text |-> extractedText,
                    started |-> extractions[k].started]
       /\ UNCHANGED <<now, conversationHistory, input, isTyping, pdfJsLoaded,
                      pdfScript, sends, nAccepted>>

\* lines 124-129, 178-182: extraction k rejects
FailUploadKeepingPartial(k) ==
    /\ uploadedFiles' = AppendItem(uploadedFiles,
                            NewFile(extractions[k].file, extractions[k].fullText))
    /\ isProcessingFile' = ProcessingAfterUpload
    /\ extractions' = RemoveAt(extractions, k)
    /\ lastOp' = [op |-> "uploadFailed", extraction |-> extractions[k]]
    /\ UNCHANGED <<now, messages, conversationHistory, input, isTyping,
                   pdfJsLoaded, pdfScript, sends, nAccepted>>

FailUpload(k) ==
    /\ isProcessingFile' = ProcessingAfterUpload
    /\ extractions' = RemoveAt(extractions, k)
    /\ lastOp' = [op |-> "uploadFailed", extraction |-> extractions[k]]
    /\ UNCHANGED <<now, messages, conversationHistory, input, isTyping,
                   uploadedFiles, pdfJsLoaded, pdfScript, sends, nAccepted>>

\* extraction k moves on to its next await
ContinueUpload(k, e) ==
    /\ extractions' = [extractions EXCEPT ![k] = e]
    /\ lastOp' = Other
    /\ UNCHANGED <<now, messages, conversationHistory, input, isTyping,
                   uploadedFiles, isProcessingFile, pdfJsLoaded, pdfScript,
                   sends, nAccepted>>

\* lines 103-106: the file was read, getDocument is called
ReaderOnload(k) ==
    /\ k \in 1..Len(extractions)
    /\ extractions[k].pc = "read"
    /\ ContinueUpload(k, [extractions[k] EXCEPT !.pc = "open"])

\* line 129
ReaderOnerror(k) ==
    /\ k \in 1..Len(extractions)
    /\ extractions[k].pc = "read"
    /\ FailUpload(k)

\* lines 106-111: the document is open, the page loop starts
GetDocumentResolve(k) ==
    /\ k \in 1..Len(extractions)
    /\ extractions[k].pc = "open"
    /\ LET e == extractions[k]
           numPages == Len(e.file.doc)
       IN IF e.i <= numPages
          THEN ContinueUpload(k, [e EXCEPT !.pc = "page"])
          ELSE CompleteUpload(k, e.fullText)

\* line 106: malformed document
GetDocumentReject(k) ==
    /\ k \in 1..Len(extractions)
    /\ extractions[k].pc = "open"
    /\ FailUpload(k)

\* lines 111-120: the text content of page i arrives
PageResolve(k) ==
    /\ k \in 1..Len(extractions)
    /\ extractions[k].pc = "page"
    /\ LET e == extractions[k]
           numPages == Len(e.file.doc)
           items == e.file.doc[e.i]
           fullText == e.fullText \o PageChunk(e.i, items)
       IN IF e.i + 1 <= numPages
          THEN ContinueUpload(k, [e EXCEPT !.i = e.i + 1, !.fullText = fullText])
          ELSE CompleteUpload(k, fullText)

\* lines 112-113: getPage or getTextContent rejects
PageReject(k) ==
    /\ k \in 1..Len(extractions)
    /\ extractions[k].pc = "page"
    /\ FailUpload(k)

-----------------------------------------------------------------------------
(* removeFile *)

\* line 187: prev.filter((_, i) => i !== index), index counted from 0
FilterOutIndexFromOne(prev, index) ==
    LET keep == {i \in 1..Len(prev) : i # index}
        RECURSIVE Pick(_)
        Pick(i) == IF i > Len(prev) THEN <<>>
                   ELSE IF i \in keep THEN <<prev[i]>> \o Pick(i + 1)
                   ELSE Pick(i + 1)
    IN Pick(1)

FilterOutIndex(prev, index) ==
    LET keep == {i \in 1..Len(prev) : i - 1 # index}
        RECURSIVE Pick(_)
        Pick(i) == IF i > Len(prev) THEN <<>>
                   ELSE IF i \in keep THEN <<prev[i]>> \o Pick(i + 1)
                   ELSE Pick(i + 1)
    IN Pick(1)

RemoveFile(index) ==
    /\ uploadedFiles' = FilterOutIndex(uploadedFiles, index)
    /\ lastOp' = [op |-> "removeFile", index |-> index]
    /\ UNCHANGED <<now, messages, conversationHistory, input, isTyping,
                   isProcessingFile, pdfJsLoaded, pdfScript, sends,
                   extractions, nAccepted>>

-----------------------------------------------------------------------------
(* Specification *)

FetchOutcomes == {"ok", "notOk", "networkError"}

Next ==
    \/ Tick
    \/ ScriptOnload
    \/ ScriptOnerror
    \/ \E value \in Inputs : SetInput(value)
    \/ HandleSend
    \/ \E k \in 1..Len(sends), outcome \in FetchOutcomes : FetchResolve(k, outcome)
    \/ \E k \in 1..Len(sends), data \in Bodies : JsonResolve(k, data)
    \/ \E k \in 1..Len(sends) : JsonReject(k)
    \/ \E files \in {<<>>} \cup {<<f>> : f \in Files} : HandleFileUpload(files)
    \/ \E k \in 1..Len(extractions) : ReaderOnload(k)
    \/ \E k \in 1..Len(extractions) : ReaderOnerror(k)
    \/ \E k \in 1..Len(extractions) : GetDocumentResolve(k)
    \/ \E k \in 1..Len(extractions) : GetDocumentReject(k)
    \/ \E k \in 1..Len(extractions) : PageResolve(k)
    \/ \E k \in 1..Len(extractions) : PageReject(k)
    \/ \E index \in 0..Len(uploadedFiles) : RemoveFile(index)

Spec == Init /\ [][Next]_vars

\* Sends from a state in which uploads have already completed: the store
\* holds their attachments and the log their upload messages.
PdfFiles == {f \in Files : f.type = PdfType}

Stores ==
    {<<>>} \cup {<<f>> : f \in PdfFiles}
           \cup {<<f, g>> : f \in PdfFiles, g \in PdfFiles}

InitCompose ==
    /\ now = 0
    /\ \E files \in Stores :
          /\ uploadedFiles = [i \in 1..Len(files) |->
                                NewFile(files[i], ExtractText(files[i].doc))]
          /\ messages = << Message("welcome", "assistant", WelcomeText, 0) >>
                        \o [i \in 1..Len(files) |-> FileMessage(files[i], 0)]
    /\ conversationHistory = <<>>
    /\ input = ""
    /\ isTyping = FALSE
    /\ isProcessingFile = FALSE
    /\ pdfJsLoaded = TRUE
    /\ pdfScript = "loaded"
    /\ sends = <<>>
    /\ extractions = <<>>
    /\ nAccepted = 0
    /\ lastOp = Other

NextCompose ==
    \/ Tick
    \/ \E value \in Inputs : SetInput(value)
    \/ HandleSend
    \/ \E k \in 1..Len(sends), outcome \in FetchOutcomes : FetchResolve(k, outcome)
    \/ \E k \in 1..Len(sends), data \in Bodies : JsonResolve(k, data)
    \/ \E k \in 1..Len(sends) : JsonReject(k)
    \/ \E index \in 0..Len(uploadedFiles) : RemoveFile(index)

SpecCompose == InitCompose /\ [][NextCompose]_vars

\* the service call of every send eventually settles
Settle ==
    \/ \E k \in 1..Len(sends), outcome \in FetchOutcomes : FetchResolve(k, outcome)
    \/ \E k \in 1..Len(sends), data \in Bodies : JsonResolve(k, data)
    \/ \E k \in 1..Len(sends) : JsonReject(k)

FairSendSpec == SpecCompose /\ WF_vars(Settle)

\* Uploads of documents of several shapes
Pages(n, items) == [i \in 1..n |-> items]

DocFiles ==
    { [name |-> "doc.pdf", type |-> PdfType, doc |-> doc] :
        doc \in { <<>>,
                  << <<>> >>,
                  << <<"a", "b", "c">> >>,
                  << <<"a">>, <<>>, <<"b", "c">> >>,
                  Pages(10, <<"p">>) } }

NextExtract ==
    \/ ScriptOnload
    \/ \E f \in DocFiles : HandleFileUpload(<<f>>)
    \/ \E k \in 1..Len(extractions) : ReaderOnload(k)
    \/ \E k \in 1..Len(extractions) : ReaderOnerror(k)
    \/ \E k \in 1..Len(extractions) : GetDocumentResolve(k)
    \/ \E k \in 1..Len(extractions) : GetDocumentReject(k)
    \/ \E k \in 1..Len(extractions) : PageResolve(k)
    \/ \E k \in 1..Len(extractions) : PageReject(k)

SpecExtract == Init /\ [][NextExtract]_vars

\* Uploads alone: nothing empties the store
NextUploads ==
    \/ ScriptOnload
    \/ \E f \in Files : HandleFileUpload(<<f>>)
    \/ \E k \in 1..Len(extractions) : ReaderOnload(k)
    \/ \E k \in 1..Len(extractions) : ReaderOnerror(k)
    \/ \E k \in 1..Len(extractions) : GetDocumentResolve(k)
    \/ \E k \in 1..Len(extractions) : GetDocumentReject(k)
    \/ \E k \in 1..Len(extractions) : PageResolve(k)
    \/ \E k \in 1..Len(extractions) : PageReject(k)

SpecUploads == Init /\ [][NextUploads]_vars

-----------------------------------------------------------------------------
(* Properties *)

Last(s) == s[Len(s)]

FailureOutcomes == {"networkError", "notOk", "parseError"}

SendFailed(op) == op.op = "sendResolved" /\ op.outcome \in FailureOutcomes
SendSucceeded(op) == op.op = "sendResolved" /\ op.outcome = "data"

\* C1: after a send whose service call failed, the Attachment Store equals
\* its value at the moment the send was invoked.
RetainOnFailure ==
    SendFailed(lastOp) => uploadedFiles = lastOp.send.uploadedFiles

\* C2: a send invoked with non-empty input while a send is in flight is
\* dropped: no request, no DisplayMessage, no change to the Model Session or
\* the Attachment Store; at most one request is outstanding in every state.
Exclusivity ==
    /\ [](Len(sends) <= 1)
    /\ [][(lastOp'.op = "handleSend" /\ isTyping /\ Trim(input) # "")
            => /\ ~lastOp'.accepted
               /\ UNCHANGED <<messages, conversationHistory, uploadedFiles, sends>>]_vars

ExclusivityWitness ==
    /\ lastOp = [op |-> "handleSend", accepted |-> FALSE]
    /\ isTyping
    /\ Trim(input) = "Summarize"
    /\ Len(sends) = 1

\* C3: every step leaves the previous Conversation Log as a prefix of the
\* new one.
AppendOnly == [][IsPrefix(messages, messages')]_vars

AppendOnlyWitness ==
    /\ Len(messages) = 4
    /\ \E j \in 2..4 : HasAttachment(messages[j])
    /\ Last(messages).sender = "assistant"

\* C4: after a send that reached the success branch the Attachment Store is
\* empty, whatever it held before.
ClearOnSuccess == SendSucceeded(lastOp) => uploadedFiles = <<>>

\* a success whose upload message lies between the user's message and the
\* reply: the attachment arrived while the send was in flight
ClearOnSuccessWitness ==
    /\ SendSucceeded(lastOp)
    /\ lastOp.send.uploadedFiles = <<>>
    /\ Len(messages) = 4
    /\ messages[2].sender = "user" /\ ~HasAttachment(messages[2])
    /\ HasAttachment(messages[3])
    /\ messages[4].sender = "assistant"
    /\ uploadedFiles = <<>>

\* C5: a failed send appends exactly one assistant DisplayMessage, with the
\* fixed apology text, after the user's message, and the Model Session is
\* what it was before the send.
FailedSendOutcome ==
    [][SendFailed(lastOp')
        => /\ Len(messages') = Len(messages) + 1
           /\ IsPrefix(messages, messages')
           /\ Last(messages').sender = "assistant"
           /\ Last(messages').text =
                "Sorry, I encountered an error while processing your request. Please try again."
           /\ \E j \in 1..Len(messages) :
                /\ messages[j].sender = "user"
                /\ ~HasAttachment(messages[j])
                /\ messages[j].text = lastOp'.send.text
           /\ conversationHistory' = conversationHistory
           /\ conversationHistory' = lastOp'.send.conversationHistory]_vars

\* a failed send after a successful one: the Model Session is not empty
FailedSendOutcomeWitness ==
    /\ SendFailed(lastOp)
    /\ Len(conversationHistory) = 2
    /\ Last(messages).sender = "assistant"

\* C6: the user turn recorded by a successful send of text t with pending
\* attachments a1..an is t when n = 0 and otherwise the context header, the
\* entries "Content from <name>:\n<content>" separated by a blank line in
\* store order, "\n\nUser question: " and t; the DisplayMessage text is t.
RECURSIVE ExpectedEntries(_, _)
ExpectedEntries(a, n) ==
    IF n = 1
    THEN "Content from " \o a[1].name \o ":\n" \o a[1].content
    ELSE ExpectedEntries(a, n - 1) \o "\n\n"
         \o "Content from " \o a[n].name \o ":\n" \o a[n].content

ExpectedTurnText(t, a) ==
    IF Len(a) = 0 THEN t
    ELSE "Context from uploaded files:\n" \o ExpectedEntries(a, Len(a))
         \o "\n\nUser question: " \o t

UserMessagesOfSends == SelectSeq(messages, LAMBDA m : m.sender = "user" /\ ~HasAttachment(m))

RequestComposition ==
    SendSucceeded(lastOp) =>
        LET n == Len(conversationHistory)
            t == lastOp.send.text
        IN /\ n >= 2
           /\ conversationHistory[n - 1].role = "user"
           /\ conversationHistory[n - 1].parts =
                << [text |-> ExpectedTurnText(t, lastOp.send.uploadedFiles)] >>
           /\ t = "Summarize"
           /\ Last(UserMessagesOfSends).text = t

RequestCompositionWitness ==
    /\ SendSucceeded(lastOp)
    /\ Len(lastOp.send.uploadedFiles) = 2
    /\ lastOp.send.uploadedFiles[1].name # lastOp.send.uploadedFiles[2].name
    /\ Last(conversationHistory).role = "model"

\* C7: the step that ends a send clears the in-flight flag on every exit
\* path, and a send in flight whose service call settles leads to Idle.
InFlightRelease ==
    /\ [][lastOp'.op = "sendResolved" => ~isTyping']_vars
    /\ [](sends = <<>> => ~isTyping)
    /\ isTyping ~> ~isTyping

\* a second send is accepted after the first one failed
InFlightReleaseWitness ==
    /\ lastOp = [op |-> "handleSend", accepted |-> TRUE]
    /\ isTyping
    /\ Len(messages) = 4
    /\ messages[3].text =
         "Sorry, I encountered an error while processing your request. Please try again."

\* C8: an upload that is not a PDF, or that comes while the extraction
\* library is not ready, changes nothing and starts no extraction.
AttachmentGating ==
    [][(/\ lastOp'.op = "handleFileUpload"
        /\ Len(lastOp'.files) > 0
        /\ (lastOp'.files[1].type # "application/pdf" \/ ~pdfJsLoaded))
        => /\ ~lastOp'.accepted
           /\ UNCHANGED <<uploadedFiles, messages, conversationHistory,
                          isProcessingFile, extractions>>]_vars

AttachmentGatingWitness ==
    /\ lastOp.op = "handleFileUpload"
    /\ ~lastOp.accepted
    /\ Len(lastOp.files) > 0
    /\ lastOp.files[1].type = "text/plain"
    /\ uploadedFiles # <<>>
    /\ isProcessingFile
    /\ Len(extractions) = 1

\* C9: a failed extraction leaves the Attachment Store and the Conversation
\* Log unchanged and clears the processing flag.
ExtractionFailure ==
    [][lastOp'.op = "uploadFailed"
        => /\ uploadedFiles' = uploadedFiles
           /\ messages' = messages
           /\ isProcessingFile' = FALSE]_vars

\* a failure on page 2, after page 1 was extracted
ExtractionFailureWitness ==
    /\ lastOp.op = "uploadFailed"
    /\ lastOp.extraction.pc = "page"
    /\ lastOp.extraction.i = 2
    /\ lastOp.extraction.fullText # ""
    /\ ~isProcessingFile

\* C10: the extracted text of a document is, for its pages in increasing
\* order, "Page i:\n", the page's fragments joined by one space, "\n\n";
\* a document without pages yields the empty string.
RECURSIVE ExpectedFragments(_, _)
ExpectedFragments(items, n) ==
    IF n = 0 THEN ""
    ELSE IF n = 1 THEN items[1]
    ELSE ExpectedFragments(items, n - 1) \o " " \o items[n]

RECURSIVE ExpectedPages(_, _)
ExpectedPages(doc, n) ==
    IF n = 0 THEN ""
    ELSE ExpectedPages(doc, n - 1) \o "Page " \o ToString(n) \o ":\n"
         \o ExpectedFragments(doc[n], Len(doc[n])) \o "\n\n"

ExtractionOrder ==
    lastOp.op = "uploadDone" =>
        /\ lastOp.text = ExpectedPages(lastOp.file.doc, Len(lastOp.file.doc))
        /\ Last(uploadedFiles).content = lastOp.text

ExtractionOrderWitness ==
    /\ lastOp.op = "uploadDone"
    /\ Len(lastOp.file.doc) = 3
    /\ lastOp.text = "Page 1:\na\n\nPage 2:\n\n\nPage 3:\nb c\n\n"

\* C11: a successful extraction appends exactly one attachment {name,
\* extracted text} at the end of the Attachment Store and exactly one user
\* DisplayMessage with hasAttachment and the file name to the Conversation
\* Log; the Model Session is unchanged.
SuccessfulUpload ==
    [][lastOp'.op = "uploadDone"
        => /\ Len(uploadedFiles') = Len(uploadedFiles) + 1
           /\ IsPrefix(uploadedFiles, uploadedFiles')
           /\ Last(uploadedFiles').name = lastOp'.file.name
           /\ Last(uploadedFiles').content = lastOp'.text
           /\ Len(messages') = Len(messages) + 1
           /\ IsPrefix(messages, messages')
           /\ Last(messages').sender = "user"
           /\ Last(messages').hasAttachment = TRUE
           /\ Last(messages').attachmentName = lastOp'.file.name
           /\ conversationHistory' = conversationHistory]_vars

SuccessfulUploadWitness ==
    /\ lastOp.op = "uploadDone"
    /\ Len(uploadedFiles) = 2
    /\ uploadedFiles[1].name # uploadedFiles[2].name
    /\ uploadedFiles[2].name = lastOp.file.name

\* C12: a success-status answer without a text at first candidate / first
\* content part / text is a success with the reply "Sorry, I could not
\* generate a response.": a model turn with that text follows the composed
\* user turn, an assistant DisplayMessage carries it, and the Attachment
\* Store is cleared.
TextPresent(data) ==
    /\ "candidates" \in DOMAIN data
    /\ Len(data.candidates) >= 1
    /\ "content" \in DOMAIN data.candidates[1]
    /\ "parts" \in DOMAIN data.candidates[1].content
    /\ Len(data.candidates[1].content.parts) >= 1
    /\ "text" \in DOMAIN data.candidates[1].content.parts[1]

PlaceholderFallback ==
    (SendSucceeded(lastOp) /\ ~TextPresent(lastOp.response.data)) =>
        LET n == Len(conversationHistory)
        IN /\ n >= 2
           /\ SubSeq(conversationHistory, 1, n - 2) = lastOp.send.conversationHistory
           /\ conversationHistory[n - 1] =
                [role |-> "user",
                 parts |-> << [text |-> ExpectedTurnText(lastOp.send.text,
                                                         lastOp.send.uploadedFiles)] >>]
           /\ conversationHistory[n] =
                [role |-> "model",
                 parts |-> << [text |-> "Sorry, I could not generate a response."] >>]
           /\ Last(messages).sender = "assistant"
           /\ Last(messages).text = "Sorry, I could not generate a response."
           /\ uploadedFiles = <<>>

\* a fallback on a send that carried an attachment
PlaceholderFallbackWitness ==
    /\ SendSucceeded(lastOp)
    /\ lastOp.response.data = [candidates |-> <<>>]
    /\ Len(lastOp.send.uploadedFiles) = 1
    /\ Last(messages).text = "Sorry, I could not generate a response."

\* C13: removeFile(i) on a store of length n yields, for 0 <= i < n, the
\* store without its i-th element (counted from 0), the others in their
\* order, and for any other i the store itself; the Conversation Log, the
\* Model Session and both flags are unchanged.
PositionalFilter ==
    [][lastOp'.op = "removeFile"
        => LET i == lastOp'.index
               n == Len(uploadedFiles)
           IN /\ IF 0 <= i /\ i < n
                 THEN /\ Len(uploadedFiles') = n - 1
                      /\ \A j \in 1..(n - 1) :
                            uploadedFiles'[j] = IF j <= i THEN uploadedFiles[j]
                                                ELSE uploadedFiles[j + 1]
                 ELSE uploadedFiles' = uploadedFiles
              /\ UNCHANGED <<messages, conversationHistory, isTyping,
                             isProcessingFile>>]_vars

\* the first of two attachments was removed; both upload messages remain
PositionalFilterWitness ==
    /\ lastOp = [op |-> "removeFile", index |-> 0]
    /\ Len(uploadedFiles) = 1
    /\ Len(messages) = 3
    /\ HasAttachment(messages[2]) /\ HasAttachment(messages[3])
    /\ uploadedFiles[1].name = messages[3].attachmentName
    /\ uploadedFiles[1].name # messages[2].attachmentName

\* C14: the contents of an outbound request are the Model Session at the
\* moment the send is invoked followed by one user turn with the composed
\* text; they hold two turns for every earlier successful send and nothing
\* of a failed one.
SuccessfulReplies ==
    SelectSeq(messages,
              LAMBDA m : /\ m.sender = "assistant"
                         /\ m.id # "welcome"
                         /\ m.text # "Sorry, I encountered an error while processing your request. Please try again.")

RequestPayload ==
    [][(lastOp'.op = "handleSend" /\ lastOp'.accepted)
        => LET contents == Last(sends').body.contents
           IN /\ Len(sends') = Len(sends) + 1
              /\ contents =
                   Append(conversationHistory,
                          [role |-> "user",
                           parts |-> << [text |-> ExpectedTurnText(Last(messages').text,
                                                                   uploadedFiles)] >>])
              /\ Len(contents) = 2 * Len(SuccessfulReplies) + 1]_vars

\* a send that follows a successful send
RequestPayloadWitness ==
    /\ lastOp = [op |-> "handleSend", accepted |-> TRUE]
    /\ Len(sends) = 1
    /\ Len(sends[1].body.contents) = 3
    /\ sends[1].body.contents[2].role = "model"

\* C15: the Model Session is the sequence of (composed user turn, model
\* reply) pairs of the sends that succeeded, in completion order: a
\* successful send appends its pair, no other step changes the session, its
\* length is even and its roles alternate user, model.
ModelSessionShape ==
    /\ [](/\ Len(conversationHistory) = 2 * Len(SuccessfulReplies)
          /\ \A j \in 1..Len(conversationHistory) :
                conversationHistory[j].role = IF j % 2 = 1 THEN "user" ELSE "model"
          /\ \A j \in 1..Len(SuccessfulReplies) :
                conversationHistory[2 * j].parts = << [text |-> SuccessfulReplies[j].text] >>)
    /\ [][IF SendSucceeded(lastOp')
          THEN conversationHistory' =
                 conversationHistory \o
                 << [role |-> "user",
                     parts |-> << [text |-> ExpectedTurnText(lastOp'.send.text,
                                                             lastOp'.send.uploadedFiles)] >>],
                    [role |-> "model",
                     parts |-> << [text |-> Last(messages').text] >>] >>
          ELSE conversationHistory' = conversationHistory]_vars

\* two successful sends, the second one a placeholder fallback
ModelSessionShapeWitness ==
    /\ Len(conversationHistory) = 4
    /\ conversationHistory[2].parts[1].text = "Hi!"
    /\ conversationHistory[4].parts[1].text = "Sorry, I could not generate a response."

\* C16: with several extractions in progress, each one that succeeds adds
\* its own attachment when it completes and none is lost or overwritten:
\* the store lists the completed uploads in the order of their completion,
\* which is the order of their upload messages in the log.
UploadMessages == SelectSeq(messages, LAMBDA m : HasAttachment(m))

DocumentOf(name) == (CHOOSE f \in Files : f.name = name).doc

OverlappingUploads ==
    /\ Len(uploadedFiles) = Len(UploadMessages)
    /\ \A j \in 1..Len(uploadedFiles) :
          /\ uploadedFiles[j].name = UploadMessages[j].attachmentName
          /\ uploadedFiles[j].content =
               ExpectedPages(DocumentOf(uploadedFiles[j].name),
                             Len(DocumentOf(uploadedFiles[j].name)))
    /\ lastOp.op = "uploadDone" => Last(uploadedFiles).name = lastOp.file.name

\* the upload that was started first completes second and is stored second
OverlappingUploadsWitness ==
    /\ lastOp.op = "uploadDone"
    /\ lastOp.started = 0
    /\ Len(uploadedFiles) = 2
    /\ uploadedFiles[2].name = lastOp.file.name
    /\ uploadedFiles[1].name # uploadedFiles[2].name

\* C17: whenever at least one extraction is in progress the processing
\* flag is true.
ProcessingFlagAccuracy == extractions # <<>> => isProcessingFile

\* C18: a send invoked with input that holds nothing but white space
\* changes nothing: no DisplayMessage, no request, and the in-flight flag,
\* the Model Session and the Attachment Store are as before.
Blank(s) == \A i \in 1..Len(s) : SubSeq(s, i, i) \in {" ", "\t", "\n"}

EmptyInput ==
    [][(lastOp'.op = "handleSend" /\ Blank(input))
        => /\ ~lastOp'.accepted
           /\ UNCHANGED <<messages, sends, isTyping, conversationHistory,
                          uploadedFiles>>]_vars

EmptyInputWitness ==
    /\ lastOp = [op |-> "handleSend", accepted |-> FALSE]
    /\ input = " \t"
    /\ ~isTyping
    /\ uploadedFiles # <<>>

\* C19: the user messages created by sends outnumber the assistant
\* messages other than the welcome message by one while a send is in flight
\* and by none otherwise, and along the log every reply follows the user
\* message of its send, whether the send succeeded or failed.
SentIn(log) == SelectSeq(log, LAMBDA m : m.sender = "user" /\ ~HasAttachment(m))

RepliesIn(log) == SelectSeq(log, LAMBDA m : m.sender = "assistant" /\ m.id # "welcome")

SendReplyPairing ==
    /\ Len(SentIn(messages)) - Len(RepliesIn(messages))
         = IF sends # <<>> THEN 1 ELSE 0
    /\ \A n \in 0..Len(messages) :
         LET log == SubSeq(messages, 1, n)
         IN Len(SentIn(log)) - Len(RepliesIn(log)) \in {0, 1}

SendReplyPairingWitness ==
    /\ Len(SentIn(messages)) = 2
    /\ Len(RepliesIn(messages)) = 1
    /\ RepliesIn(messages)[1].text = ApiErrorText
    /\ sends # <<>>

\* C20: all messages of the log have pairwise distinct ids, also when
\* several events take place at the same clock reading.
UniqueIds ==
    \A i, j \in 1..Len(messages) :
        messages[i].id = messages[j].id => i = j

=============================================================================
